---- MODULE Spec2Model ----
(***************************************************************************)
(* posix::local_socket (src/posix++/local_socket.cc): construction, pair,  *)
(* bind, connect, accept, send_descriptor and recv_descriptor, run by one  *)
(* caller against a model of the kernel's descriptor table, open file      *)
(* descriptions and local-socket message queues.  Every kernel call is one *)
(* step of the operation in progress; its result is drawn from success     *)
(* (when the kernel could succeed) and the errno values below.             *)
(***************************************************************************)
EXTENDS Integers, Sequences, FiniteSets, TLC

VARIABLES cfg, fds, kobj, owned, op, ncalls

vars == <<cfg, fds, kobj, owned, op, ncalls>>

----------------------------------------------------------------------------
(* Bounds of the model. *)

\* size of the process's descriptor table (::socket fails when it is full)
MaxFd == 3
\* size of the system's table of open file descriptions
MaxObj == 3
\* consecutive EINTR results one kernel call may return
MaxEintr == 1
\* messages in flight over all socket queues
MaxMsgs == 1
\* operations the caller starts in one run
MaxCalls == 3

----------------------------------------------------------------------------
(* Platform constants (LP64 <sys/socket.h>). *)

sizeof_int == 4
sizeof_cmsghdr == 16

CMSG_ALIGN(n) == ((n + 7) \div 8) * 8
CMSG_LEN(n) == CMSG_ALIGN(sizeof_cmsghdr) + n
CMSG_SPACE(n) == CMSG_ALIGN(sizeof_cmsghdr) + CMSG_ALIGN(n)

\* std::array<std::uint8_t, CMSG_SPACE(sizeof(int))> cmsg_buffer
cmsg_buffer_size == CMSG_SPACE(sizeof_int)

\* std::array<std::uint8_t, 1> data_buffer
data_buffer_size == 1

----------------------------------------------------------------------------
(* Values. *)

Fd == 0 .. (MaxFd - 1)
Obj == 1 .. MaxObj

\* descriptor::_fd of an empty descriptor
NoFd == -1

Errnos == {"EINTR", "EBADF", "EMFILE", "ENFILE", "ENOBUFS", "ENOMEM", "EINVAL"}

\* socket(2) and socketpair(2) never block, and so are never interrupted
CreateErrnos == Errnos \ {"EINTR"}

Pathnames == {"a"}

Closed == [obj |-> 0, cloexec |-> FALSE, origin |-> "none"]
FreeObj == [kind |-> "free", peer |-> 0, q |-> <<>>]

\* peer of a socket connected to an endpoint of another process
Remote == MaxObj + 1

Min(a, b) == IF a <= b THEN a ELSE b

Range(s) == {s[i] : i \in 1 .. Len(s)}

OpenIn(tbl) == {f \in Fd : tbl[f].obj # 0}
FreeIn(tbl) == Fd \ OpenIn(tbl)
OpenFds == OpenIn(fds)

\* the kernel hands out the lowest unused descriptor
LowestFree(tbl) == CHOOSE f \in FreeIn(tbl) : \A g \in FreeIn(tbl) : f <= g

FreeObjs(ko) == {o \in Obj : ko[o].kind = "free"}
LowestObj(ko) == CHOOSE o \in FreeObjs(ko) : \A p \in FreeObjs(ko) : o <= p

IsSocketFd(tbl, ko, f) == f \in OpenIn(tbl) /\ ko[tbl[f].obj].kind = "sock"

\* messages queued over all sockets
RECURSIVE QueuedFrom(_, _)
QueuedFrom(ko, o) == IF o > MaxObj THEN 0 ELSE Len(ko[o].q) + QueuedFrom(ko, o + 1)
Queued(ko) == QueuedFrom(ko, 1)

\* open file descriptions kept alive: those a descriptor refers to, and those
\* carried by a message queued on a live socket
RECURSIVE LiveFrom(_, _, _)
LiveFrom(ko, live, n) ==
  LET more == live \cup {o \in Obj : \E s \in live : \E i \in 1 .. Len(ko[s].q) :
                                        o \in Range(ko[s].q[i].files)}
  IN IF n = 0 \/ more = live THEN more ELSE LiveFrom(ko, more, n - 1)
Live(tbl, ko) == LiveFrom(ko, {tbl[f].obj : f \in OpenIn(tbl)}, MaxObj)

\* the kernel frees what nothing refers to any more; a socket whose peer is
\* gone is no longer connected
Collect(tbl, ko) ==
  LET live == Live(tbl, ko)
  IN [o \in Obj |->
        IF o \notin live THEN FreeObj
        ELSE IF ko[o].peer \in Obj /\ ko[o].peer \notin live
             THEN [ko[o] EXCEPT !.peer = 0]
             ELSE ko[o]]

----------------------------------------------------------------------------
(* The Descriptor collaborator (descriptor.h is outside this file): close,  *)
(* assign and cloexec as its contract states them.                         *)

\* ::close(fd): the slot is free again; the kernel collects what it referred to
descriptor_close(tbl, f) == IF f \in OpenIn(tbl) THEN [tbl EXCEPT ![f] = Closed] ELSE tbl

\* descriptor::assign(fd): take ownership of fd, releasing the handle owned before
descriptor_assign(tbl, old, new) == IF old = new THEN tbl ELSE descriptor_close(tbl, old)

\* descriptor::cloexec(true) on an owned handle: fcntl(F_SETFD, FD_CLOEXEC)
descriptor_cloexec(tbl, f) == [tbl EXCEPT ![f].cloexec = TRUE]

\* descriptor::cloexec on an empty descriptor: fcntl(-1, ...) is EBADF
cloexec_throws(tbl, f) == f \notin OpenIn(tbl)

----------------------------------------------------------------------------
(* The errno switches of local_socket.cc. *)

\* the constructor's switch without case ENOBUFS
ClassifyCreateNoBufs(e) ==
  IF e \in {"EMFILE", "ENFILE", "ENOMEM"} THEN "fatal_error" ELSE "error"

ClassifyCreate(e) ==
  IF e \in {"EMFILE", "ENFILE", "ENOBUFS", "ENOMEM"} THEN "fatal_error" ELSE "error"

\* pair's switch with the constructor's case ENOBUFS
ClassifyPairAsCreate(e) ==
  IF e \in {"EMFILE", "ENFILE", "ENOBUFS", "ENOMEM"} THEN "fatal_error" ELSE "error"

ClassifyPair(e) ==
  IF e \in {"EMFILE", "ENFILE", "ENOMEM"} THEN "fatal_error" ELSE "error"

ClassifyBind(e) ==
  CASE e = "EINTR" -> "retry"
    [] e = "ENOMEM" -> "fatal_error"
    [] e = "EBADF" -> "bad_descriptor"
    [] OTHER -> "error"

\* connect's switch with bind's case ENOMEM
ClassifyConnectAsBind(e) ==
  CASE e = "EINTR" -> "retry"
    [] e = "ENOMEM" -> "fatal_error"
    [] e = "EBADF" -> "bad_descriptor"
    [] OTHER -> "error"

ClassifyConnect(e) ==
  CASE e = "EINTR" -> "retry"
    [] e = "EBADF" -> "bad_descriptor"
    [] OTHER -> "error"

ClassifyAccept(e) ==
  CASE e = "EINTR" -> "retry"
    [] e \in {"EMFILE", "ENFILE", "ENOBUFS", "ENOMEM"} -> "fatal_error"
    [] e = "EBADF" -> "bad_descriptor"
    [] OTHER -> "error"

ClassifySend(e) ==
  CASE e = "EINTR" -> "retry"
    [] e = "ENOMEM" -> "fatal_error"
    [] e = "EBADF" -> "bad_descriptor"
    [] OTHER -> "error"

\* recv_descriptor's switch without case EINTR
ClassifyRecvNoRetry(e) ==
  CASE e = "ENOMEM" -> "fatal_error"
    [] e = "EBADF" -> "bad_descriptor"
    [] OTHER -> "error"

ClassifyRecv(e) ==
  CASE e = "EINTR" -> "retry"
    [] e = "ENOMEM" -> "fatal_error"
    [] e = "EBADF" -> "bad_descriptor"
    [] OTHER -> "error"

----------------------------------------------------------------------------
(* Conditional compilation. *)

\* #ifdef SOCK_CLOEXEC flags |= SOCK_CLOEXEC
CreateAtomic == cfg.SOCK_CLOEXEC

\* the constructor without its second step
CtorFallbackNever == FALSE

\* #ifndef SOCK_CLOEXEC cloexec(true) in the constructor
CtorFallback == ~cfg.SOCK_CLOEXEC

\* #ifndef SOCK_CLOEXEC pair.first.cloexec(true); pair.second.cloexec(true)
PairFallback == ~cfg.SOCK_CLOEXEC

\* #if defined(HAVE_ACCEPT4) && defined(SOCK_CLOEXEC): ::accept4(.., SOCK_CLOEXEC)
AcceptAtomic == cfg.HAVE_ACCEPT4 /\ cfg.SOCK_CLOEXEC

\* #if !(defined(HAVE_ACCEPT4) && defined(SOCK_CLOEXEC)) connection.cloexec(true)
AcceptFallback == ~(cfg.HAVE_ACCEPT4 /\ cfg.SOCK_CLOEXEC)

\* #ifdef MSG_CMSG_CLOEXEC flags |= MSG_CMSG_CLOEXEC
RecvAtomic == cfg.MSG_CMSG_CLOEXEC

\* #ifndef MSG_CMSG_CLOEXEC result.cloexec(true)
RecvFallback == ~cfg.MSG_CMSG_CLOEXEC

----------------------------------------------------------------------------
(* The operation in progress. *)

\* a queued message of one payload byte and no ancillary record
NoCmsg == [has |-> FALSE, level |-> "none", type |-> "none", dlen |-> 0,
           files |-> <<>>, data |-> <<>>, payload |-> 1]

\* CMSG_FIRSTHDR(&msg) == nullptr
NoRecord == [present |-> FALSE, cmsg_len |-> 0, cmsg_level |-> "none",
             cmsg_type |-> "none", data |-> <<>>]

Idle ==
  [name |-> "none", pc |-> "idle", self |-> NoFd, arg |-> NoFd, path |-> "",
   sock |-> NoFd, sock2 |-> NoFd, eintr |-> 0, nsocket |-> 0, before |-> 0,
   kind |-> "none", errno |-> "none", carried |-> "none", from |-> "none",
   what |-> "", ret |-> <<>>, got |-> FALSE, msg |-> NoCmsg, cmsg |-> NoRecord]

Start(name, pc, self, arg, path) ==
  [Idle EXCEPT !.name = name, !.pc = pc, !.self = self, !.arg = arg,
               !.path = path, !.before = Cardinality(OpenFds)]

\* return normally with the values in ret (none: void, or an empty Descriptor)
Return(o, ret) ==
  [o EXCEPT !.pc = "done", !.kind = "ok", !.ret = ret, !.sock = NoFd, !.sock2 = NoFd]

\* throw posix::error(errno), posix::fatal_error(errno) or posix::bad_descriptor();
\* the locals are destroyed by the caller of Throw
Throw(o, kind, e, from) ==
  [o EXCEPT !.pc = "done", !.kind = kind, !.errno = e, !.from = from,
            !.carried = IF kind \in {"error", "fatal_error"} THEN e ELSE "none",
            !.sock = NoFd, !.sock2 = NoFd]

\* throw std::logic_error(what)
ThrowLogic(o, what) ==
  [o EXCEPT !.pc = "done", !.kind = "logic_error", !.what = what, !.from = "cmsg",
            !.sock = NoFd, !.sock2 = NoFd]

\* what the caller continues with once its local_socket is constructed
AfterCtor(o) == IF o.name = "ctor" THEN Return(o, <<o.sock>>) ELSE [o EXCEPT !.pc = o.name]

CanCreate(n) == Cardinality(FreeIn(fds)) >= n /\ Cardinality(FreeObjs(kobj)) >= n

\* a fresh local stream socket, not connected
NewSock(peer) == [kind |-> "sock", peer |-> peer, q |-> <<>>]

----------------------------------------------------------------------------
(* Initial state: any build configuration, nothing open.  accept4() is only  *)
(* ever called with SOCK_CLOEXEC, so a platform has it only with that flag. *)

Init ==
  /\ cfg \in [SOCK_CLOEXEC : BOOLEAN, HAVE_ACCEPT4 : BOOLEAN, MSG_CMSG_CLOEXEC : BOOLEAN]
  /\ cfg.HAVE_ACCEPT4 => cfg.SOCK_CLOEXEC
  /\ fds = [f \in Fd |-> Closed]
  /\ kobj = [o \in Obj |-> FreeObj]
  /\ owned = {}
  /\ op = Idle
  /\ ncalls = 0

----------------------------------------------------------------------------
(* The caller. *)

\* local_socket objects the caller may invoke a method on: the sockets it owns,
\* and an empty (moved-from) one
CallerSockets == {f \in owned : IsSocketFd(fds, kobj, f)} \cup {NoFd}

CallCtor ==
  /\ op.pc = "idle"
  /\ ncalls < MaxCalls
  /\ ncalls' = ncalls + 1
  /\ op' = Start("ctor", "socket", NoFd, NoFd, "")
  /\ UNCHANGED <<cfg, fds, kobj, owned>>

CallPair ==
  /\ op.pc = "idle"
  /\ ncalls < MaxCalls
  /\ ncalls' = ncalls + 1
  /\ op' = Start("pair", "socketpair", NoFd, NoFd, "")
  /\ UNCHANGED <<cfg, fds, kobj, owned>>

\* local_socket socket = local_socket() comes first in bind and connect
CallBind ==
  /\ op.pc = "idle"
  /\ ncalls < MaxCalls
  /\ ncalls' = ncalls + 1
  /\ \E p \in Pathnames : op' = Start("bind", "socket", NoFd, NoFd, p)
  /\ UNCHANGED <<cfg, fds, kobj, owned>>

CallConnect ==
  /\ op.pc = "idle"
  /\ ncalls < MaxCalls
  /\ ncalls' = ncalls + 1
  /\ \E p \in Pathnames : op' = Start("connect", "socket", NoFd, NoFd, p)
  /\ UNCHANGED <<cfg, fds, kobj, owned>>

\* local_socket connection; runs the default constructor first
CallAccept ==
  /\ op.pc = "idle"
  /\ ncalls < MaxCalls
  /\ ncalls' = ncalls + 1
  /\ \E s \in CallerSockets : op' = Start("accept", "socket", s, NoFd, "")
  /\ UNCHANGED <<cfg, fds, kobj, owned>>

CallSend ==
  /\ op.pc = "idle"
  /\ ncalls < MaxCalls
  /\ ncalls' = ncalls + 1
  /\ \E s \in CallerSockets, d \in owned \cup {NoFd} :
       op' = Start("send", "sendmsg", s, d, "")
  /\ UNCHANGED <<cfg, fds, kobj, owned>>

CallRecv ==
  /\ op.pc = "idle"
  /\ ncalls < MaxCalls
  /\ ncalls' = ncalls + 1
  /\ \E s \in CallerSockets : op' = Start("recv", "recvmsg", s, NoFd, "")
  /\ UNCHANGED <<cfg, fds, kobj, owned>>

\* the caller takes the returned values, or catches the exception
Ack ==
  /\ op.pc = "done"
  /\ owned' = owned \cup Range(op.ret)
  /\ op' = Idle
  /\ UNCHANGED <<cfg, fds, kobj, ncalls>>

\* a value the caller owns goes out of scope: ~descriptor() closes its handle
Destroy ==
  /\ op.pc = "idle"
  /\ \E f \in owned :
       LET tbl == descriptor_close(fds, f)
       IN /\ fds' = tbl
          /\ kobj' = Collect(tbl, kobj)
          /\ owned' = owned \ {f}
  /\ UNCHANGED <<cfg, op, ncalls>>

\* the caller opens a file or pipe of its own, to be sent later
OpenFile ==
  /\ op.pc = "idle"
  /\ ncalls < MaxCalls
  /\ ncalls' = ncalls + 1
  /\ CanCreate(1)
  /\ LET f == LowestFree(fds)
         o == LowestObj(kobj)
     IN /\ fds' = [fds EXCEPT ![f] = [obj |-> o, cloexec |-> FALSE, origin |-> "ext"]]
        /\ kobj' = [kobj EXCEPT ![o] = [kind |-> "file", peer |-> 0, q |-> <<>>]]
        /\ owned' = owned \cup {f}
  /\ UNCHANGED <<cfg, op>>

----------------------------------------------------------------------------
(* local_socket::local_socket() *)

\* ::socket(AF_LOCAL, SOCK_STREAM | flags, 0), the switch on its errno, assign(sockfd)
Socket ==
  /\ op.pc = "socket"
  /\ \/ /\ CanCreate(1)
        /\ LET f == LowestFree(fds)
               o == LowestObj(kobj)
               c == [op EXCEPT !.sock = f, !.nsocket = @ + 1]
           IN /\ fds' = [fds EXCEPT ![f] = [obj |-> o, cloexec |-> CreateAtomic,
                                            origin |-> "socket"]]
              /\ kobj' = [kobj EXCEPT ![o] = NewSock(0)]
              /\ op' = IF CtorFallback THEN [c EXCEPT !.pc = "cloexec"] ELSE AfterCtor(c)
     \/ /\ \E e \in CreateErrnos :
             op' = Throw([op EXCEPT !.nsocket = @ + 1], ClassifyCreate(e), e, "socket")
        /\ UNCHANGED <<fds, kobj>>
  /\ UNCHANGED <<cfg, owned, ncalls>>

\* cloexec(true) as the constructor's second step
CtorCloexec ==
  /\ op.pc = "cloexec"
  /\ fds' = descriptor_cloexec(fds, op.sock)
  /\ op' = AfterCtor(op)
  /\ UNCHANGED <<cfg, kobj, owned, ncalls>>

----------------------------------------------------------------------------
(* local_socket::pair() *)

SocketPair ==
  /\ op.pc = "socketpair"
  /\ \/ /\ CanCreate(2)
        /\ LET f0 == LowestFree(fds)
               o0 == LowestObj(kobj)
               t0 == [fds EXCEPT ![f0] = [obj |-> o0, cloexec |-> CreateAtomic,
                                          origin |-> "socketpair"]]
               k0 == [kobj EXCEPT ![o0] = NewSock(0)]
               f1 == LowestFree(t0)
               o1 == LowestObj(k0)
               c == [op EXCEPT !.sock = f0, !.sock2 = f1]
           IN /\ fds' = [t0 EXCEPT ![f1] = [obj |-> o1, cloexec |-> CreateAtomic,
                                            origin |-> "socketpair"]]
              /\ kobj' = [k0 EXCEPT ![o0] = NewSock(o1), ![o1] = NewSock(o0)]
              /\ op' = IF PairFallback THEN [c EXCEPT !.pc = "pair_cloexec1"]
                       ELSE Return(c, <<f0, f1>>)
     \/ /\ \E e \in CreateErrnos : op' = Throw(op, ClassifyPair(e), e, "socketpair")
        /\ UNCHANGED <<fds, kobj>>
  /\ UNCHANGED <<cfg, owned, ncalls>>

PairCloexecFirst ==
  /\ op.pc = "pair_cloexec1"
  /\ fds' = descriptor_cloexec(fds, op.sock)
  /\ op' = [op EXCEPT !.pc = "pair_cloexec2"]
  /\ UNCHANGED <<cfg, kobj, owned, ncalls>>

PairCloexecSecond ==
  /\ op.pc = "pair_cloexec2"
  /\ fds' = descriptor_cloexec(fds, op.sock2)
  /\ op' = Return(op, <<op.sock, op.sock2>>)
  /\ UNCHANGED <<cfg, kobj, owned, ncalls>>

----------------------------------------------------------------------------
(* local_socket::bind(), local_socket::connect() *)

\* struct sockaddr_un addr and addrlen = sizeof(addr.sun_family) + strlen(sun_path)
sizeof_sun_family == 2
SockAddr(p) == [sun_family |-> "AF_LOCAL", sun_path |-> p,
                addrlen |-> sizeof_sun_family + Len(p)]

\* an exception leaves the function: the local socket is destroyed
Unwind(tbl, o) == descriptor_close(tbl, o.sock)

Bind ==
  /\ op.pc = "bind"
  /\ \/ /\ IsSocketFd(fds, kobj, op.sock)
        /\ op' = Return(op, <<op.sock>>)
        /\ UNCHANGED <<fds, kobj>>
     \/ \E e \in Errnos :
          IF ClassifyBind(e) = "retry"
          THEN /\ op.eintr < MaxEintr
               /\ op' = [op EXCEPT !.eintr = @ + 1]
               /\ UNCHANGED <<fds, kobj>>
          ELSE /\ op' = Throw(op, ClassifyBind(e), e, "bind")
               /\ fds' = Unwind(fds, op)
               /\ kobj' = Collect(Unwind(fds, op), kobj)
  /\ UNCHANGED <<cfg, owned, ncalls>>

Connect ==
  /\ op.pc = "connect"
  /\ \/ /\ IsSocketFd(fds, kobj, op.sock)
        /\ op' = Return(op, <<op.sock>>)
        /\ kobj' = [kobj EXCEPT ![fds[op.sock].obj].peer = Remote]
        /\ UNCHANGED fds
     \/ \E e \in Errnos :
          IF ClassifyConnect(e) = "retry"
          THEN /\ op.eintr < MaxEintr
               /\ op' = [op EXCEPT !.eintr = @ + 1]
               /\ UNCHANGED <<fds, kobj>>
          ELSE /\ op' = Throw(op, ClassifyConnect(e), e, "connect")
               /\ fds' = Unwind(fds, op)
               /\ kobj' = Collect(Unwind(fds, op), kobj)
  /\ UNCHANGED <<cfg, owned, ncalls>>

----------------------------------------------------------------------------
(* local_socket::accept() *)

Accept ==
  /\ op.pc = "accept"
  /\ \/ /\ IsSocketFd(fds, kobj, op.self)
        /\ CanCreate(1)
        /\ LET connfd == LowestFree(fds)
               o == LowestObj(kobj)
               t0 == [fds EXCEPT ![connfd] = [obj |-> o, cloexec |-> AcceptAtomic,
                                              origin |-> "accept"]]
               k0 == [kobj EXCEPT ![o] = NewSock(Remote)]
               t1 == descriptor_assign(t0, op.sock, connfd)
               c == [op EXCEPT !.sock = connfd]
           IN /\ fds' = t1
              /\ kobj' = Collect(t1, k0)
              /\ op' = IF AcceptFallback THEN [c EXCEPT !.pc = "accept_cloexec"]
                       ELSE Return(c, <<connfd>>)
     \/ \E e \in Errnos :
          IF ClassifyAccept(e) = "retry"
          THEN /\ op.eintr < MaxEintr
               /\ op' = [op EXCEPT !.eintr = @ + 1]
               /\ UNCHANGED <<fds, kobj>>
          ELSE /\ op' = Throw(op, ClassifyAccept(e), e, "accept")
               /\ fds' = Unwind(fds, op)
               /\ kobj' = Collect(Unwind(fds, op), kobj)
  /\ UNCHANGED <<cfg, owned, ncalls>>

AcceptCloexec ==
  /\ op.pc = "accept_cloexec"
  /\ fds' = descriptor_cloexec(fds, op.sock)
  /\ op' = Return(op, <<op.sock>>)
  /\ UNCHANGED <<cfg, kobj, owned, ncalls>>

----------------------------------------------------------------------------
(* Messages on a local socket's receive queue. *)

IsRights(m) == m.has /\ m.level = "SOL_SOCKET" /\ m.type = "SCM_RIGHTS"

\* what another process holding the peer endpoint may send: one payload byte with
\* no ancillary record, with one or two descriptors, or with a record of other tags.
\* Its message is taken to arrive while recv_descriptor waits for it in recvmsg.
RawShapes ==
  {NoCmsg}
  \cup {[NoCmsg EXCEPT !.has = TRUE, !.level = l, !.type = t, !.dlen = sizeof_int] :
          l \in {"SOL_SOCKET", "SOL_OTHER"}, t \in {"SCM_RIGHTS", "SCM_OTHER"}}
  \cup {[NoCmsg EXCEPT !.has = TRUE, !.level = "SOL_SOCKET", !.type = t,
                       !.dlen = 2 * sizeof_int] : t \in {"SCM_RIGHTS", "SCM_OTHER"}}

\* the open file descriptions a rights message of another process carries
RECURSIVE NewFiles(_, _)
NewFiles(ko, n) ==
  IF n = 0 THEN [ko |-> ko, files |-> <<>>]
  ELSE LET o == LowestObj(ko)
           r == NewFiles([ko EXCEPT ![o] = [kind |-> "file", peer |-> 0, q |-> <<>>]], n - 1)
       IN [ko |-> r.ko, files |-> <<o>> \o r.files]

RawSend ==
  /\ op.pc = "recvmsg"
  /\ IsSocketFd(fds, kobj, op.self)
  /\ Queued(kobj) < MaxMsgs
  /\ \E m \in RawShapes :
       LET s == fds[op.self].obj
           n == IF IsRights(m) THEN m.dlen \div sizeof_int ELSE 0
       IN /\ kobj[s].peer # 0
          /\ kobj[s].q = <<>>
          /\ Cardinality(FreeObjs(kobj)) >= n
          /\ LET r == NewFiles(kobj, n)
             IN kobj' = [r.ko EXCEPT ![s].q = Append(@, [m EXCEPT !.files = r.files])]
  /\ UNCHANGED <<cfg, fds, owned, op, ncalls>>

----------------------------------------------------------------------------
(* local_socket::send_descriptor() *)

\* the record with another cmsg_type
BuildMsgWrongType(d) ==
  [msg_iovlen |-> 1, iov_len |-> data_buffer_size, msg_controllen |-> cmsg_buffer_size,
   cmsg_len |-> CMSG_LEN(sizeof_int), cmsg_level |-> "SOL_SOCKET",
   cmsg_type |-> "SCM_OTHER", data |-> <<d>>]

\* the msghdr, iovec and cmsghdr send_descriptor fills in
BuildMsg(d) ==
  [msg_iovlen |-> 1, iov_len |-> data_buffer_size, msg_controllen |-> cmsg_buffer_size,
   cmsg_len |-> CMSG_LEN(sizeof_int), cmsg_level |-> "SOL_SOCKET",
   cmsg_type |-> "SCM_RIGHTS", data |-> <<d>>]

\* the kernel turns the descriptors of a rights record into references to their
\* open file descriptions
Queue(msg, tbl) ==
  [has |-> TRUE, level |-> msg.cmsg_level, type |-> msg.cmsg_type,
   dlen |-> msg.cmsg_len - CMSG_LEN(0),
   files |-> [i \in 1 .. Len(msg.data) |-> tbl[msg.data[i]].obj],
   data |-> msg.data, payload |-> msg.iov_len]

SendMsg ==
  /\ op.pc = "sendmsg"
  /\ \/ /\ IsSocketFd(fds, kobj, op.self)
        /\ LET msg == BuildMsg(op.arg)
               peer == kobj[fds[op.self].obj].peer
           IN /\ peer # 0
              /\ Range(msg.data) \subseteq OpenFds
              /\ IF peer = Remote THEN UNCHANGED kobj
                 ELSE /\ Queued(kobj) < MaxMsgs
                      /\ kobj' = [kobj EXCEPT ![peer].q = Append(@, Queue(msg, fds))]
        /\ op' = Return(op, <<>>)
     \/ /\ \E e \in Errnos :
             IF ClassifySend(e) = "retry"
             THEN /\ op.eintr < MaxEintr
                  /\ op' = [op EXCEPT !.eintr = @ + 1]
             ELSE op' = Throw(op, ClassifySend(e), e, "sendmsg")
        /\ UNCHANGED kobj
  /\ UNCHANGED <<cfg, fds, owned, ncalls>>

----------------------------------------------------------------------------
(* local_socket::recv_descriptor() *)

\* descriptors the control buffer of recv_descriptor has room for
FdMax == (cmsg_buffer_size - CMSG_ALIGN(sizeof_cmsghdr)) \div sizeof_int

\* the kernel installs the first k files of a rights message in the lowest free slots
RECURSIVE Install(_, _, _, _)
Install(tbl, files, k, atomic) ==
  IF k = 0 THEN [tbl |-> tbl, data |-> <<>>]
  ELSE LET f == LowestFree(tbl)
           r == Install([tbl EXCEPT ![f] = [obj |-> Head(files), cloexec |-> atomic,
                                            origin |-> "recvmsg"]],
                        Tail(files), k - 1, atomic)
       IN [tbl |-> r.tbl, data |-> <<f>> \o r.data]

\* ::recvmsg(fd(), &msg, flags) of message m: the descriptor table afterwards and
\* the first ancillary record the caller finds (CMSG_FIRSTHDR)
Deliver(tbl, m, atomic) ==
  IF ~m.has THEN [tbl |-> tbl, cmsg |-> NoRecord]
  ELSE IF IsRights(m)
  THEN LET k == Min(Min(Len(m.files), FdMax), Cardinality(FreeIn(tbl)))
           r == Install(tbl, m.files, k, atomic)
       IN [tbl |-> r.tbl,
           cmsg |-> IF k = 0 THEN NoRecord
                    ELSE [present |-> TRUE, cmsg_len |-> CMSG_LEN(k * sizeof_int),
                          cmsg_level |-> m.level, cmsg_type |-> m.type, data |-> r.data]]
  ELSE [tbl |-> tbl,
        cmsg |-> [present |-> TRUE, cmsg_len |-> Min(CMSG_LEN(m.dlen), cmsg_buffer_size),
                  cmsg_level |-> m.level, cmsg_type |-> m.type, data |-> <<>>]]

\* the tag tests in the other order
ParseCmsgTypeFirst(c) ==
  IF c.present /\ c.cmsg_len = CMSG_LEN(sizeof_int)
  THEN IF c.cmsg_type # "SCM_RIGHTS" THEN [what |-> "invalid cmsg_type", fd |-> NoFd]
       ELSE IF c.cmsg_level # "SOL_SOCKET" THEN [what |-> "invalid cmsg_level", fd |-> NoFd]
       ELSE [what |-> "", fd |-> c.data[1]]
  ELSE [what |-> "", fd |-> NoFd]

\* lines 268-277: the exception thrown ("" for none) and the handle assigned to result
ParseCmsg(c) ==
  IF c.present /\ c.cmsg_len = CMSG_LEN(sizeof_int)
  THEN IF c.cmsg_level # "SOL_SOCKET" THEN [what |-> "invalid cmsg_level", fd |-> NoFd]
       ELSE IF c.cmsg_type # "SCM_RIGHTS" THEN [what |-> "invalid cmsg_type", fd |-> NoFd]
       ELSE [what |-> "", fd |-> c.data[1]]
  ELSE [what |-> "", fd |-> NoFd]

\* descriptor result as returned: nothing when it is empty
Result(f) == IF f = NoFd THEN <<>> ELSE <<f>>

RecvMsg ==
  /\ op.pc = "recvmsg"
  /\ \/ /\ IsSocketFd(fds, kobj, op.self)
        /\ kobj[fds[op.self].obj].q # <<>>
        /\ LET s == fds[op.self].obj
               d == Deliver(fds, Head(kobj[s].q), RecvAtomic)
               p == ParseCmsg(d.cmsg)
               c == [op EXCEPT !.sock = p.fd, !.got = TRUE, !.msg = Head(kobj[s].q),
                               !.cmsg = d.cmsg]
           IN /\ fds' = d.tbl
              /\ kobj' = Collect(d.tbl, [kobj EXCEPT ![s].q = Tail(@)])
              /\ op' = IF p.what # "" THEN ThrowLogic(c, p.what)
                       ELSE IF RecvFallback THEN [c EXCEPT !.pc = "recv_cloexec"]
                       ELSE Return(c, Result(p.fd))
     \/ /\ \E e \in Errnos :
             IF ClassifyRecv(e) = "retry"
             THEN /\ op.eintr < MaxEintr
                  /\ op' = [op EXCEPT !.eintr = @ + 1]
             ELSE op' = Throw(op, ClassifyRecv(e), e, "recvmsg")
        /\ UNCHANGED <<fds, kobj>>
  /\ UNCHANGED <<cfg, owned, ncalls>>

\* result.cloexec(true), on whatever result holds
RecvCloexec ==
  /\ op.pc = "recv_cloexec"
  /\ IF cloexec_throws(fds, op.sock)
     THEN /\ op' = Throw(op, "bad_descriptor", "EBADF", "fcntl")
          /\ UNCHANGED fds
     ELSE /\ fds' = descriptor_cloexec(fds, op.sock)
          /\ op' = Return(op, Result(op.sock))
  /\ UNCHANGED <<cfg, kobj, owned, ncalls>>

----------------------------------------------------------------------------

\* the kernel call the operation is about to issue, with its arguments
KernelCall(o) ==
  CASE o.pc = "bind" -> <<"bind", o.sock, SockAddr(o.path)>>
    [] o.pc = "connect" -> <<"connect", o.sock, SockAddr(o.path)>>
    [] o.pc = "accept" -> <<"accept", o.self>>
    [] o.pc = "sendmsg" -> <<"sendmsg", o.self, BuildMsg(o.arg)>>
    [] o.pc = "recvmsg" -> <<"recvmsg", o.self, RecvAtomic>>
    [] OTHER -> <<o.pc>>

Next ==
  \/ CallCtor \/ CallPair \/ CallBind \/ CallConnect \/ CallAccept \/ CallSend \/ CallRecv
  \/ Ack \/ Destroy \/ OpenFile \/ RawSend
  \/ Socket \/ CtorCloexec
  \/ SocketPair \/ PairCloexecFirst \/ PairCloexecSecond
  \/ Bind \/ Connect \/ Accept \/ AcceptCloexec
  \/ SendMsg
  \/ RecvMsg \/ RecvCloexec

Spec == Init /\ [][Next]_vars

----------------------------------------------------------------------------
(* Properties. *)

Done == op.pc = "done"
Failed == Done /\ op.kind # "ok"

\* the kernel calls the operations retry when interrupted
Interruptible == {"bind", "connect", "accept", "sendmsg", "recvmsg"}

ResourceCodes == {"EMFILE", "ENFILE", "ENOBUFS", "ENOMEM"}

\* C1: bind, connect, accept, send_descriptor and recv_descriptor never surface
\* EINTR: an EINTR result leaves the operation at the same kernel call with the
\* same arguments and nothing else changed, and the operation ends only with the
\* outcome of a result other than EINTR.
C1_InterruptTransparency ==
  /\ [](Done => op.errno # "EINTR" /\ op.carried # "EINTR" /\ op.kind # "retry")
  /\ [][(op'.eintr = op.eintr + 1) =>
          /\ op.pc \in Interruptible
          /\ op'.pc = op.pc
          /\ KernelCall(op') = KernelCall(op)
          /\ op' = [op EXCEPT !.eintr = @ + 1]
          /\ UNCHANGED <<fds, kobj, owned>>]_vars

\* recv_descriptor returned a descriptor after its recvmsg was interrupted
C1_Witness ==
  Done /\ op.name = "recv" /\ op.kind = "ok" /\ op.eintr >= 1 /\ op.ret # <<>>

\* C2: a failed ::socket in the constructor is fatal exactly for EMFILE, ENFILE,
\* ENOBUFS and ENOMEM and an ordinary error otherwise, carries the code, and leaves
\* no handle behind; a successful one returns a socket owning the new handle.
C2_Construction ==
  (Done /\ op.name = "ctor") =>
    IF op.kind = "ok"
    THEN /\ Len(op.ret) = 1
         /\ op.ret[1] \in OpenFds \ owned
         /\ fds[op.ret[1]].origin = "socket"
         /\ Cardinality(OpenFds) = op.before + 1
    ELSE /\ op.from = "socket"
         /\ op.kind = (IF op.errno \in ResourceCodes THEN "fatal_error" ELSE "error")
         /\ op.carried = op.errno
         /\ op.ret = <<>>
         /\ Cardinality(OpenFds) = op.before

\* the constructor failed with ENOBUFS, a fatal error
C2_Witness ==
  Done /\ op.name = "ctor" /\ op.errno = "ENOBUFS" /\ op.kind = "fatal_error"

\* the codes that are fatal for each interruptible kernel call
FatalSet(call) ==
  CASE call = "bind" -> {"ENOMEM"}
    [] call = "connect" -> {}
    [] call = "accept" -> ResourceCodes
    [] call = "sendmsg" -> {"ENOMEM"}
    [] call = "recvmsg" -> {"ENOMEM"}

\* C3: a failure of bind, connect, accept, sendmsg or recvmsg with a code other
\* than EINTR is bad_descriptor for EBADF, fatal carrying the code when the code is
\* in the call's fatal set, and an ordinary error carrying the code otherwise.
C3_Classification ==
  (Failed /\ op.from \in Interruptible) =>
    /\ op.errno \in Errnos \ {"EINTR"}
    /\ IF op.errno = "EBADF"
       THEN op.kind = "bad_descriptor" /\ op.carried = "none"
       ELSE IF op.errno \in FatalSet(op.from)
       THEN op.kind = "fatal_error" /\ op.carried = op.errno
       ELSE op.kind = "error" /\ op.carried = op.errno

\* connect failed with ENOMEM, an ordinary error
C3_Witness ==
  Done /\ op.from = "connect" /\ op.errno = "ENOMEM" /\ op.kind = "error"

\* the first ancillary record recv_descriptor found is one of one integer
OneIntRecord == op.cmsg.present /\ op.cmsg.cmsg_len = CMSG_LEN(sizeof_int)

\* C4: when recvmsg succeeds and there is no ancillary record, or its length is
\* not that of a one-integer record, recv_descriptor returns an empty Descriptor
\* and raises nothing, with and without MSG_CMSG_CLOEXEC.
C4_NoDescriptorReceive ==
  (Done /\ op.name = "recv" /\ op.got /\ ~OneIntRecord) =>
    (op.kind = "ok" /\ op.ret = <<>>)

\* C5: accept issues no ::socket call, a successful accept leaves exactly one
\* more open handle, owned by the returned socket, and the listening socket
\* stays open and owned.
C5_AcceptFrame ==
  (op.name = "accept") =>
    /\ op.nsocket = 0
    /\ (op.self # NoFd) => (op.self \in owned /\ IsSocketFd(fds, kobj, op.self))
    /\ (Done /\ op.kind = "ok") =>
         /\ Len(op.ret) = 1
         /\ op.ret[1] \in OpenFds \ owned
         /\ Cardinality(OpenFds) = op.before + 1

\* messages queued by send_descriptor (those of other processes record no integers)
SentMessages ==
  {m \in UNION {Range(kobj[o].q) : o \in Obj} : m.data # <<>>}

\* C6: send_descriptor(D) queues one payload byte and one record (SOL_SOCKET,
\* SCM_RIGHTS, one integer, D's handle) and leaves D open and owned by the sender;
\* when recv_descriptor then receives that record, it returns a Descriptor whose
\* handle refers to the same open file description as D, and differs from D's
\* handle while the sender still holds D.
C6_RoundTrip ==
  /\ \A m \in SentMessages :
       /\ m.payload = 1 /\ m.has /\ IsRights(m)
       /\ m.dlen = sizeof_int /\ Len(m.data) = 1 /\ Len(m.files) = 1
  /\ (Done /\ op.name = "send" /\ op.kind = "ok") =>
       /\ op.arg \in owned \cap OpenFds
       /\ Cardinality(OpenFds) = op.before
       /\ LET peer == kobj[fds[op.self].obj].peer
          IN peer \in Obj =>
               LET m == kobj[peer].q[Len(kobj[peer].q)]
               IN m.data = <<op.arg>> /\ m.files = <<fds[op.arg].obj>>
  /\ (Done /\ op.name = "recv" /\ op.msg.data # <<>> /\ op.cmsg.present) =>
       /\ op.kind = "ok"
       /\ Len(op.ret) = 1
       /\ op.ret[1] \in OpenFds \ owned
       /\ fds[op.ret[1]].obj = op.msg.files[1]
       /\ LET D == op.msg.data[1]
          IN (D \in owned /\ fds[D].obj = op.msg.files[1]) =>
               (op.ret[1] # D /\ fds[op.ret[1]].obj = fds[D].obj)

\* recv_descriptor returned D' for a D the sender still owns
C6_Witness ==
  /\ Done /\ op.name = "recv" /\ op.kind = "ok" /\ op.msg.data # <<>>
  /\ Len(op.ret) = 1
  /\ op.msg.data[1] \in owned
  /\ fds[op.msg.data[1]].obj = fds[op.ret[1]].obj
  /\ op.ret[1] # op.msg.data[1]

TagsMatch == op.cmsg.cmsg_level = "SOL_SOCKET" /\ op.cmsg.cmsg_type = "SCM_RIGHTS"

\* C7: a one-integer record whose level is not SOL_SOCKET or whose type is not
\* SCM_RIGHTS makes recv_descriptor throw std::logic_error, for the level first,
\* and return nothing; a record of another length, or none, never does.
C7_TagMismatch ==
  (Done /\ op.name = "recv" /\ op.got) =>
    IF OneIntRecord /\ ~TagsMatch
    THEN /\ op.kind = "logic_error"
         /\ op.ret = <<>>
         /\ op.what = (IF op.cmsg.cmsg_level # "SOL_SOCKET" THEN "invalid cmsg_level"
                       ELSE "invalid cmsg_type")
    ELSE op.kind # "logic_error"

\* both tags were wrong and the level was reported
C7_Witness ==
  /\ Done /\ op.name = "recv" /\ op.got /\ OneIntRecord
  /\ op.cmsg.cmsg_level # "SOL_SOCKET" /\ op.cmsg.cmsg_type # "SCM_RIGHTS"
  /\ op.kind = "logic_error" /\ op.what = "invalid cmsg_level"

\* C8: pair() returns two sockets owning the two distinct new handles, connected
\* to each other; a failed ::socketpair is fatal exactly for EMFILE, ENFILE and
\* ENOMEM and an ordinary error otherwise (ENOBUFS included), carrying the code.
C8_Pair ==
  (Done /\ op.name = "pair") =>
    IF op.kind = "ok"
    THEN /\ Len(op.ret) = 2
         /\ op.ret[1] # op.ret[2]
         /\ Range(op.ret) \subseteq OpenFds \ owned
         /\ Cardinality(OpenFds) = op.before + 2
         /\ kobj[fds[op.ret[1]].obj].peer = fds[op.ret[2]].obj
         /\ kobj[fds[op.ret[2]].obj].peer = fds[op.ret[1]].obj
    ELSE /\ op.from = "socketpair"
         /\ op.kind = (IF op.errno \in {"EMFILE", "ENFILE", "ENOMEM"} THEN "fatal_error"
                       ELSE "error")
         /\ op.carried = op.errno
         /\ op.ret = <<>>
         /\ Cardinality(OpenFds) = op.before

\* pair failed with ENOBUFS, an ordinary error
C8_Witness ==
  Done /\ op.name = "pair" /\ op.errno = "ENOBUFS" /\ op.kind = "error"

\* the kernel call that made a handle sets close-on-exec itself
MadeAtomically(f) ==
  CASE fds[f].origin \in {"socket", "socketpair"} -> cfg.SOCK_CLOEXEC
    [] fds[f].origin = "accept" -> cfg.HAVE_ACCEPT4 /\ cfg.SOCK_CLOEXEC
    [] fds[f].origin = "recvmsg" -> cfg.MSG_CMSG_CLOEXEC
    [] OTHER -> FALSE

\* C9: every handle a successful construction, pair, bind, connect, accept or
\* recv_descriptor returns has close-on-exec set, as has every handle the caller
\* took from them; a handle of this component without the flag exists only where
\* the call that made it has no atomic flag.
C9_CloseOnExec ==
  /\ (Done /\ op.kind = "ok") => \A f \in Range(op.ret) : fds[f].cloexec
  /\ \A f \in owned : fds[f].origin # "ext" => fds[f].cloexec
  /\ \A f \in OpenFds : (fds[f].origin # "ext" /\ ~fds[f].cloexec) => ~MadeAtomically(f)

\* accept returned a handle whose flag was set by the second step
C9_Witness ==
  /\ Done /\ op.name = "accept" /\ op.kind = "ok"
  /\ ~MadeAtomically(op.ret[1])
  /\ fds[op.ret[1]].cloexec

\* C10: once an operation has returned or thrown, every open handle is owned by
\* the caller or by a returned value.
C10_NoLeak ==
  (op.pc \in {"idle", "done"}) => OpenFds \subseteq (owned \cup Range(op.ret))

====
